---- MODULE Spec2Model ----
(***************************************************************************)
(* REST Countries Explorer (src/script.js): the data loader with its       *)
(* fallback, the search / favorites / sort / paginate pipeline, the        *)
(* favorites store kept in localStorage, and the DOM state the handlers    *)
(* switch (hidden classes, grid cards, pagination buttons, the noResults   *)
(* panel).                                                                 *)
(*                                                                         *)
(* JavaScript strings are sequences of one-character strings; objects are  *)
(* records whose DOMAIN is the set of properties present; a JSON text is a *)
(* sequence of tokens.                                                     *)
(***************************************************************************)
EXTENDS Integers, Sequences, FiniteSets, TLC

VARIABLES
  allCountries,       \* let allCountries (line 5)
  favorites,          \* let favorites (line 6): a parsed JSON value
  currentSort,        \* let currentSort (line 7)
  showFavoritesOnly,  \* let showFavoritesOnly (line 8)
  currentPage,        \* let currentPage (line 9)
  searchInput,        \* searchInput.value
  loadingHidden,      \* loadingIndicator.classList has 'hidden'
  gridHidden,         \* countriesGrid.classList has 'hidden'
  noResultsHidden,    \* noResults.classList has 'hidden'
  paginationHidden,   \* pagination.classList has 'hidden'
  noResultsHTML,      \* noResults.innerHTML: "markup" (as shipped) or "error"
  gridCards,          \* countriesGrid.innerHTML: the cca3 of each card, in order
  paginationHTML,     \* pagination.innerHTML: the page each button changes to
  localStorage,       \* the 'favoriteCountries' item
  runs,               \* the activations of fetchCountries that have not returned
  booted,             \* DOMContentLoaded has fired
  filteredCountries,  \* the list applyFiltersAndSort last handed to the renderer
  lastOp,             \* the handler that ran last, and what it did
  loads               \* how many times fetchCountries has been called

vars == <<allCountries, favorites, currentSort, showFavoritesOnly, currentPage,
          searchInput, loadingHidden, gridHidden, noResultsHidden,
          paginationHidden, noResultsHTML, gridCards, paginationHTML,
          localStorage, runs, booted, filteredCountries, lastOp, loads>>

(***************************************************************************)
(* Bounds of the model.                                                    *)
(***************************************************************************)
MaxSearchLen == 2     \* longest text typed into the search box
MaxCollection == 2    \* longest collection drawn for the pipeline
MaxRuns == 2          \* activations of fetchCountries in flight at once
MaxLoads == 3         \* calls of fetchCountries in one session
MaxItems == 43        \* largest collection drawn for pagination

itemsPerPage == 21

(***************************************************************************)
(* Strings.                                                                *)
(***************************************************************************)
Chars == {"a", "A", "b", " "}

Lower(c) == CASE c = "A" -> "a" [] c = "B" -> "b" [] OTHER -> c

toLowerCase(s) == [i \in 1..Len(s) |-> Lower(s[i])]

RECURSIVE trimStart(_)
trimStart(s) ==
  IF s # <<>> /\ Head(s) = " " THEN trimStart(Tail(s)) ELSE s

RECURSIVE trimEnd(_)
trimEnd(s) ==
  IF s # <<>> /\ s[Len(s)] = " " THEN trimEnd(SubSeq(s, 1, Len(s) - 1)) ELSE s

trim(s) == trimEnd(trimStart(s))

\* String.prototype.includes: t occurs in s at some offset k.
includes(s, t) ==
  \E k \in 0..(Len(s) - Len(t)) : SubSeq(s, k + 1, k + Len(t)) = t

\* Strings of at most n characters.
RECURSIVE StringsUpTo(_)
StringsUpTo(n) ==
  IF n = 0 THEN {<<>>}
  ELSE LET shorter == StringsUpTo(n - 1)
       IN  shorter \cup {Append(s, c) : s \in shorter, c \in Chars}

(***************************************************************************)
(* String.prototype.localeCompare: the letters are compared first without  *)
(* their case (a space sorts before every letter, a prefix before the      *)
(* longer string); strings equal at that level are ordered lower case      *)
(* first.                                                                  *)
(***************************************************************************)
Primary(c) == CASE c = " " -> 0 [] Lower(c) = "a" -> 1 [] OTHER -> 2

Tertiary(c) == IF Lower(c) = c THEN 0 ELSE 1

\* The first place from i on where the keys differ decides; a string that
\* ends first sorts first.
RECURSIVE CompareFrom(_, _, _, _)
CompareFrom(a, b, i, level) ==
  LET key(c) == IF level = 1 THEN Primary(c) ELSE Tertiary(c)
  IN  IF i > Len(a) /\ i > Len(b) THEN 0
      ELSE IF i > Len(a) THEN -1
      ELSE IF i > Len(b) THEN 1
      ELSE IF key(a[i]) < key(b[i]) THEN -1
      ELSE IF key(a[i]) > key(b[i]) THEN 1
      ELSE CompareFrom(a, b, i + 1, level)

localeCompare(a, b) ==
  LET p == CompareFrom(a, b, 1, 1)
  IN  IF p # 0 THEN p ELSE CompareFrom(a, b, 1, 3)

(***************************************************************************)
(* JSON.  A text is a sequence of tokens: "[", "]", ",", "null", "5" (a    *)
(* number), "{}" (an object), and any other token is a quoted string.  A   *)
(* parsed value is tagged with its kind; an array keeps its elements, a    *)
(* string its text.                                                        *)
(***************************************************************************)
JArray(items) == [kind |-> "array", items |-> items]
JString(str) == [kind |-> "string", items |-> <<str>>]
JOther(kind) == [kind |-> kind, items |-> <<>>]

Punctuation == {"[", "]", ","}

IsScalarToken(t) == t \notin Punctuation /\ t # "{}"

\* JSON.stringify of an array of scalars.
RECURSIVE JoinTokens(_)
JoinTokens(items) ==
  IF items = <<>> THEN <<>>
  ELSE IF Len(items) = 1 THEN <<items[1]>>
  ELSE <<items[1], ",">> \o JoinTokens(Tail(items))

stringify(items) == <<"[">> \o JoinTokens(items) \o <<"]">>

\* The elements between the brackets: scalars at the odd places, commas at
\* the even ones.
WellFormedElements(inner) ==
  \/ inner = <<>>
  \/ /\ Len(inner) % 2 = 1
     /\ \A i \in 1..Len(inner) :
          IF i % 2 = 1 THEN IsScalarToken(inner[i]) ELSE inner[i] = ","

Elements(inner) == [i \in 1..((Len(inner) + 1) \div 2) |-> inner[2 * i - 1]]

\* JSON.parse throws a SyntaxError on this text.
parseThrows(text) ==
  ~ \/ Len(text) = 1 /\ text[1] \notin Punctuation
    \/ /\ Len(text) >= 2
       /\ text[1] = "[" /\ text[Len(text)] = "]"
       /\ WellFormedElements(SubSeq(text, 2, Len(text) - 1))

\* JSON.parse of a text it accepts.
parse(text) ==
  IF Len(text) = 1
  THEN CASE text[1] = "null" -> JOther("null")
         [] text[1] = "5" -> JOther("number")
         [] text[1] = "{}" -> JOther("object")
         [] OTHER -> JString(text[1])
  ELSE JArray(Elements(SubSeq(text, 2, Len(text) - 1)))

(***************************************************************************)
(* The favorites store.  localStorage holds the item or not.               *)
(***************************************************************************)
NoItem == [present |-> FALSE, text |-> <<>>]
Item(text) == [present |-> TRUE, text |-> text]

\* loadFavorites: the value of favorites after the call.  getItem gives null
\* for a missing item, and null and "" are both falsy.
loadFavorites(fav, store) ==
  IF store.present /\ store.text # <<>>
  THEN IF parseThrows(store.text) THEN JArray(<<>>) ELSE parse(store.text)
  ELSE fav

\* favorites.includes(code) and favorites.indexOf(code) throw a TypeError:
\* a number, null and a plain object have neither method.
membershipThrows(fav) == fav.kind \notin {"array", "string"}

\* favorites.includes(code).  On a string it is the substring test; the
\* codes all have three letters, so a code occurs in a stored code only when
\* they are equal.
favIncludes(fav, code) == \E i \in 1..Len(fav.items) : fav.items[i] = code

\* favorites.indexOf(code), 0-based, -1 when absent.
favIndexOf(fav, code) ==
  IF favIncludes(fav, code)
  THEN (CHOOSE i \in 1..Len(fav.items) :
          fav.items[i] = code /\ \A j \in 1..(i - 1) : fav.items[j] # code) - 1
  ELSE -1

\* favorites.splice(index, 1)
splice1(items, index) ==
  SubSeq(items, 1, index) \o SubSeq(items, index + 2, Len(items))

(***************************************************************************)
(* Objects.                                                                *)
(***************************************************************************)
Has(obj, prop) == prop \in DOMAIN obj

\* { ...a, ...b }
Spread(a, b) ==
  [k \in DOMAIN a \cup DOMAIN b |-> IF k \in DOMAIN b THEN b[k] ELSE a[k]]

\* obj[prop] || fallback, for a property that is an array or an object when
\* it is there.
OrDefault(obj, prop, fallback) == IF Has(obj, prop) THEN obj[prop] ELSE fallback

(***************************************************************************)
(* What the endpoints answer.  The v3.1 items carry cca3, an object name   *)
(* and a capital array; the v2 items carry alpha3Code, a string name, a    *)
(* string capital and a flag.  Either source leaves out capital, borders   *)
(* and timezones for some countries.                                       *)
(***************************************************************************)
V3Items ==
  << [cca3 |-> "AAA", name |-> [common |-> <<"A", "b">>],
      capital |-> << <<"b", "a">> >>, region |-> <<"a">>, population |-> 2,
      flags |-> [png |-> "aaa.png"]],
     [cca3 |-> "BBB", name |-> [common |-> <<"b">>],
      region |-> <<"b">>, population |-> 1,
      flags |-> [png |-> "bbb.png"]] >>

V2Items ==
  << [alpha3Code |-> "AAA", name |-> <<"A", "b">>,
      capital |-> <<"b", "a">>, region |-> <<"a">>, population |-> 2,
      flag |-> "aaa.svg", borders |-> <<"BBB">>, timezones |-> <<"UTC">>],
     [alpha3Code |-> "BBB", name |-> <<"b">>,
      region |-> <<"b">>, population |-> 1, flag |-> "bbb.svg"] >>

\* The second request's items: cca3 with the fields the first one left out.
AdditionalItems ==
  << [cca3 |-> "AAA", borders |-> <<"BBB">>, timezones |-> <<"UTC">>,
      languages |-> [aa |-> "Aa"]],
     [cca3 |-> "BBB", languages |-> [bb |-> "Bb"]] >>

\* Line 130: an item of the v2 shape.
IsLegacy(country) == Has(country, "alpha3Code") /\ ~Has(country, "cca3")

(***************************************************************************)
(* fetchCountries, lines 103-106 and 128-156: the merge of the second      *)
(* request and the normalization.                                          *)
(***************************************************************************)
\* additionalData.find(ad => ad.cca3 === country.cca3): the index, 0 if none.
\* An item without cca3 compares as undefined.
findAdditional(additionalData, country) ==
  LET same(i) == IF Has(country, "cca3")
                 THEN Has(additionalData[i], "cca3")
                      /\ additionalData[i].cca3 = country.cca3
                 ELSE ~Has(additionalData[i], "cca3")
      hits == {i \in 1..Len(additionalData) : same(i)}
  IN  IF hits = {} THEN 0 ELSE CHOOSE i \in hits : \A j \in hits : i <= j

mergeAdditional(data, additionalData) ==
  [n \in 1..Len(data) |->
     LET i == findAdditional(additionalData, data[n])
     IN  IF i = 0 THEN data[n] ELSE Spread(data[n], additionalData[i])]

\* The v2 branch.  A v2 name is a string, and a v2 item has its flag.
normalizeLegacy(country) ==
  Spread(country,
         [cca3 |-> country.alpha3Code,
          name |-> [common |-> country.name],
          flags |-> [png |-> country.flag]])

\* The v3.1 branch.  area, maps, latlng, capitalInfo, subregion and
\* nativeName default to null and are read by the detail view alone.
normalizeCurrent(country) ==
  Spread(country,
         [borders |-> OrDefault(country, "borders", <<>>),
          languages |-> OrDefault(country, "languages", <<>>),
          timezones |-> OrDefault(country, "timezones", <<>>),
          continents |-> OrDefault(country, "continents", <<>>)])

normalize(country) ==
  IF IsLegacy(country) THEN normalizeLegacy(country)
  ELSE normalizeCurrent(country)

normalizeAll(data) == [n \in 1..Len(data) |-> normalize(data[n])]

(***************************************************************************)
(* applyFiltersAndSort and what it calls.                                  *)
(***************************************************************************)
\* country.capital && country.capital[0]: a capital array with a first
\* entry, or, in the v2 shape, a capital string with a first character.
hasFirstCapital(country) ==
  /\ Has(country, "capital")
  /\ country.capital # <<>>
  /\ (~Has(country, "alpha3Code") => country.capital[1] # <<>>)

\* country.capital[0]: the first entry of the array, or the first character
\* of the v2 string.
firstCapital(country) ==
  IF Has(country, "alpha3Code") THEN <<country.capital[1]>>
  ELSE country.capital[1]

\* The predicate of the search filter, lines 252-254.
matchesSearch(country, searchTerm) ==
  \/ includes(toLowerCase(country.name.common), searchTerm)
  \/ /\ hasFirstCapital(country)
     /\ includes(toLowerCase(firstCapital(country)), searchTerm)
  \/ includes(toLowerCase(country.region), searchTerm)

\* The search term, line 249.
searchTermOf(value) == trim(toLowerCase(value))

\* Lines 250-256.
searchFilter(countries, value) ==
  LET searchTerm == searchTermOf(value)
  IN  IF searchTerm # <<>>
      THEN SelectSeq(countries, LAMBDA c : matchesSearch(c, searchTerm))
      ELSE countries

\* Lines 259-263.
favoritesFilter(countries, fav) ==
  SelectSeq(countries, LAMBDA c : favIncludes(fav, c.cca3))

\* A faulty comparator: pop-high orders by ascending population too.
compareAscending(method, a, b) ==
  CASE method = "a-z" -> localeCompare(a.name.common, b.name.common)
    [] method = "z-a" -> localeCompare(b.name.common, a.name.common)
    [] method = "continent" ->
         IF a.region # b.region THEN localeCompare(a.region, b.region)
         ELSE localeCompare(a.name.common, b.name.common)
    [] method = "pop-high" -> a.population - b.population
    [] method = "pop-low" -> a.population - b.population
    [] OTHER -> 0

\* The comparators of sortCountries.
compare(method, a, b) ==
  CASE method = "a-z" -> localeCompare(a.name.common, b.name.common)
    [] method = "z-a" -> localeCompare(b.name.common, a.name.common)
    [] method = "continent" ->
         IF a.region # b.region THEN localeCompare(a.region, b.region)
         ELSE localeCompare(a.name.common, b.name.common)
    [] method = "pop-high" -> b.population - a.population
    [] method = "pop-low" -> a.population - b.population
    [] OTHER -> 0

\* Array.prototype.sort is stable: an element comes after the elements that
\* compare less than it and after the earlier elements that compare equal.
sortsBefore(countries, method, j, i) ==
  \E c \in {compare(method, countries[j], countries[i])} :
    c < 0 \/ (c = 0 /\ j < i)

\* The place of countries[i] in the sorted array.
sortedIndex(countries, method, i) ==
  Cardinality({j \in 1..Len(countries) : sortsBefore(countries, method, j, i)}) + 1

sortCountries(countries, method) ==
  CHOOSE sorted \in
      {[p \in 1..Len(countries) |-> countries[(CHOOSE r \in ranks : r[1] = p)[2]]] :
         ranks \in {{<<sortedIndex(countries, method, i), i>> :
                       i \in 1..Len(countries)}}} :
    TRUE

SortKeys == {"a-z", "z-a", "continent", "pop-high", "pop-low"}

(***************************************************************************)
(* renderCountriesWithPagination and what it calls.                        *)
(***************************************************************************)
Min(a, b) == IF a <= b THEN a ELSE b
Max(a, b) == IF a >= b THEN a ELSE b

\* A faulty page count: Math.floor in place of Math.ceil.
totalPagesFloor(length) == length \div itemsPerPage

\* Math.ceil(length / itemsPerPage), line 299.
totalPagesOf(length) ==
  IF length % itemsPerPage = 0 THEN length \div itemsPerPage
  ELSE length \div itemsPerPage + 1

\* Array.prototype.slice(start, end) for start, end >= 0.
slice(arr, start, end) ==
  IF start >= Len(arr) \/ end <= start THEN <<>>
  ELSE SubSeq(arr, start + 1, Min(end, Len(arr)))

\* A faulty slice of the page: it starts a page too far.
countriesToShowNextPage(countries, page) ==
  LET startIndex == page * itemsPerPage
      endIndex == startIndex + itemsPerPage
  IN  slice(countries, startIndex, endIndex)

\* Lines 300-302.
countriesToShow(countries, page) ==
  LET startIndex == (page - 1) * itemsPerPage
      endIndex == startIndex + itemsPerPage
  IN  slice(countries, startIndex, endIndex)

Button(kind, page) == [kind |-> kind, page |-> page]

\* renderPagination: the buttons it writes, lines 393-446.
renderPagination(totalPages, page) ==
  IF totalPages <= 1 THEN <<>>
  ELSE LET startPage == Max(1, page - 2)
           endPage == Min(totalPages, page + 2)
       IN  (IF page > 1 THEN <<Button("prev", page - 1)>> ELSE <<>>)
           \o [i \in 1..(endPage - startPage + 1) |->
                 Button("page", startPage + i - 1)]
           \o (IF page < totalPages THEN <<Button("next", page + 1)>> ELSE <<>>)

\* The part of the document the pipeline writes.
Dom ==
  [gridHidden |-> gridHidden, noResultsHidden |-> noResultsHidden,
   paginationHidden |-> paginationHidden, gridCards |-> gridCards,
   paginationHTML |-> paginationHTML]

codesOf(countries) == [n \in 1..Len(countries) |-> countries[n].cca3]

\* Lines 298-321.  createCountryCard asks favorites.includes for the first
\* card, after the classes are switched and the grid is emptied.
renderCountriesWithPagination(dom, countries, page, fav) ==
  IF Len(countries) = 0
  THEN [dom |-> [dom EXCEPT !.gridHidden = TRUE, !.noResultsHidden = FALSE,
                            !.paginationHidden = TRUE],
        threw |-> FALSE]
  ELSE LET shown == countriesToShow(countries, page)
           switched == [dom EXCEPT !.gridHidden = FALSE,
                                   !.noResultsHidden = TRUE,
                                   !.paginationHidden = FALSE]
       IN  IF shown # <<>> /\ membershipThrows(fav)
           THEN [dom |-> [switched EXCEPT !.gridCards = <<>>], threw |-> TRUE]
           ELSE [dom |-> [switched EXCEPT
                            !.gridCards = codesOf(shown),
                            !.paginationHTML =
                               renderPagination(totalPagesOf(Len(countries)), page)],
                 threw |-> FALSE]

\* Lines 245-270.  rendered: the renderer was reached; filtered: what it got.
applyFiltersAndSort(dom, countries, value, favOnly, fav, method, page) ==
  LET searched == searchFilter(countries, value)
  IN  IF favOnly /\ searched # <<>> /\ membershipThrows(fav)
      THEN [dom |-> dom, threw |-> TRUE, rendered |-> FALSE, filtered |-> <<>>]
      ELSE LET filtered ==
                 sortCountries(IF favOnly THEN favoritesFilter(searched, fav)
                               ELSE searched, method)
               r == renderCountriesWithPagination(dom, filtered, page, fav)
           IN  [dom |-> r.dom, threw |-> r.threw, rendered |-> TRUE,
                filtered |-> filtered]

\* The document and the renderer's input after a call of applyFiltersAndSort.
Rendered(res) ==
  /\ gridHidden' = res.dom.gridHidden
  /\ noResultsHidden' = res.dom.noResultsHidden
  /\ paginationHidden' = res.dom.paginationHidden
  /\ gridCards' = res.dom.gridCards
  /\ paginationHTML' = res.dom.paginationHTML
  /\ filteredCountries' = IF res.rendered THEN res.filtered ELSE filteredCountries

\* The record of a handler's run; page is currentPage when it was called.
Op(name, threw) ==
  [op |-> name, threw |-> threw, code |-> "", streak |-> 0,
   prior |-> JArray(<<>>), before |-> JArray(<<>>), saved |-> FALSE,
   cause |-> "", fallback |-> FALSE, page |-> currentPage,
   recomputed |-> FALSE]

(***************************************************************************)
(* The handlers of the view state.                                         *)
(***************************************************************************)
\* A faulty handleSearch: the page is left where it was.
handleSearchKeepsPage(value) ==
  /\ booted
  /\ searchInput' = value
  /\ currentPage' = currentPage
  /\ \E res \in {applyFiltersAndSort(Dom, allCountries, value, showFavoritesOnly,
                                    favorites, currentSort, currentPage)} :
       Rendered(res) /\ lastOp' = Op("handleSearch", res.threw)
  /\ UNCHANGED <<allCountries, favorites, currentSort, showFavoritesOnly,
                 loadingHidden, noResultsHTML, localStorage, runs, booted, loads>>

\* The user edits the search box to `value`; the input event runs handleSearch.
handleSearch(value) ==
  /\ booted
  /\ searchInput' = value
  /\ currentPage' = 1
  /\ \E res \in {applyFiltersAndSort(Dom, allCountries, value, showFavoritesOnly,
                                    favorites, currentSort, 1)} :
       Rendered(res) /\ lastOp' = Op("handleSearch", res.threw)
  /\ UNCHANGED <<allCountries, favorites, currentSort, showFavoritesOnly,
                 loadingHidden, noResultsHTML, localStorage, runs, booted, loads>>

\* The user picks `method` in the sort selector.
handleSortChange(method) ==
  /\ booted
  /\ currentSort' = method
  /\ currentPage' = 1
  /\ \E res \in {applyFiltersAndSort(Dom, allCountries, searchInput,
                                    showFavoritesOnly, favorites, method, 1)} :
       Rendered(res) /\ lastOp' = Op("handleSortChange", res.threw)
  /\ UNCHANGED <<allCountries, favorites, showFavoritesOnly, searchInput,
                 loadingHidden, noResultsHTML, localStorage, runs, booted, loads>>

\* A click on favoritesFilter or backToHome.
toggleFavoritesFilter ==
  /\ booted
  /\ showFavoritesOnly' = ~showFavoritesOnly
  /\ currentPage' = 1
  /\ \E res \in {applyFiltersAndSort(Dom, allCountries, searchInput,
                                    ~showFavoritesOnly, favorites, currentSort, 1)} :
       Rendered(res) /\ lastOp' = Op("toggleFavoritesFilter", res.threw)
  /\ UNCHANGED <<allCountries, favorites, currentSort, searchInput,
                 loadingHidden, noResultsHTML, localStorage, runs, booted, loads>>

\* A click on a button renderPagination wrote.
changePage(page) ==
  /\ booted
  /\ ~paginationHidden
  /\ \E i \in 1..Len(paginationHTML) : paginationHTML[i].page = page
  /\ currentPage' = page
  /\ \E res \in {applyFiltersAndSort(Dom, allCountries, searchInput,
                                    showFavoritesOnly, favorites, currentSort, page)} :
       Rendered(res) /\ lastOp' = Op("changePage", res.threw)
  /\ UNCHANGED <<allCountries, favorites, currentSort, showFavoritesOnly,
                 searchInput, loadingHidden, noResultsHTML, localStorage, runs,
                 booted, loads>>

(***************************************************************************)
(* toggleFavorite, from the heart button of a card in the grid.  setItem   *)
(* may throw (quota, storage disabled); saveFavorites swallows it.         *)
(***************************************************************************)
\* What the call did.  prior: favorites before it; streak: 2 when the call
\* before it was a toggleFavorite of the same code, and then before is
\* favorites as it was before that one.  recomputed: line 480 was reached,
\* applyFiltersAndSort was called.
ToggleOp(code, threw, saved, recomputed) ==
  LET continues == lastOp.op = "toggleFavorite" /\ lastOp.code = code
                   /\ lastOp.streak = 1
  IN  [op |-> "toggleFavorite", threw |-> threw, code |-> code,
       streak |-> IF continues THEN 2 ELSE 1,
       prior |-> favorites,
       before |-> IF continues THEN lastOp.prior ELSE favorites,
       saved |-> saved, cause |-> "", fallback |-> FALSE, page |-> currentPage,
       recomputed |-> recomputed]

\* saveFavorites: the item after the call.
saveFavorites(fav, store, writeOk) ==
  IF writeOk THEN Item(stringify(fav.items)) ELSE store

\* Lines 460-466 on an array.
toggled(items, code) ==
  LET index == favIndexOf(JArray(items), code)
  IN  IF index > -1 THEN splice1(items, index) ELSE Append(items, code)

toggleFavorite(countryCode, writeOk) ==
  /\ booted
  /\ ~gridHidden
  /\ \E i \in 1..Len(gridCards) : gridCards[i] = countryCode
  /\ IF favorites.kind # "array"
     THEN \* indexOf, or splice / push on a string, throws
          /\ lastOp' = ToggleOp(countryCode, TRUE, FALSE, FALSE)
          /\ UNCHANGED <<favorites, localStorage, gridHidden, noResultsHidden,
                         paginationHidden, gridCards, paginationHTML,
                         filteredCountries>>
     ELSE LET fav == JArray(toggled(favorites.items, countryCode))
              res == IF showFavoritesOnly
                     THEN applyFiltersAndSort(Dom, allCountries, searchInput,
                                              TRUE, fav, currentSort, currentPage)
                     ELSE [dom |-> Dom, threw |-> FALSE, rendered |-> FALSE,
                           filtered |-> <<>>]
          IN  /\ favorites' = fav
              /\ localStorage' = saveFavorites(fav, localStorage, writeOk)
              /\ Rendered(res)
              /\ lastOp' = ToggleOp(countryCode, res.threw, writeOk, showFavoritesOnly)
  /\ UNCHANGED <<allCountries, currentSort, showFavoritesOnly, currentPage,
                 searchInput, loadingHidden, noResultsHTML, runs, booted, loads>>

(***************************************************************************)
(* fetchCountries.  An activation is suspended at one of its awaits:       *)
(*   "primary"         line 76, the v3.1 request                           *)
(*   "fallback"        line 81, the v2 request                             *)
(*   "json"            line 89, response.json()                            *)
(*   "additional"      line 98, the second v3.1 request                    *)
(*   "additionalJson"  line 100, additionalResponse.json()                 *)
(* and between two awaits any other handler may run.                       *)
(***************************************************************************)
Run(pc, fallback, data) == [pc |-> pc, fallback |-> fallback, data |-> data]

RemoveAt(seq, i) == SubSeq(seq, 1, i - 1) \o SubSeq(seq, i + 1, Len(seq))

\* The call up to its first await: showLoading and the v3.1 request.
callFetchCountries ==
  /\ loads < MaxLoads
  /\ Len(runs) < MaxRuns
  /\ loads' = loads + 1
  /\ runs' = Append(runs, Run("primary", FALSE, <<>>))
  /\ loadingHidden' = FALSE
  /\ gridHidden' = TRUE
  /\ noResultsHidden' = TRUE

\* The catch block, lines 164-179: hideLoading, then showError.
LoadFailed(i, cause, message) ==
  /\ runs' = RemoveAt(runs, i)
  /\ loadingHidden' = TRUE
  /\ gridHidden' = FALSE
  /\ noResultsHTML' = message
  /\ noResultsHidden' = FALSE
  /\ lastOp' = [Op("loadFailed", FALSE) EXCEPT !.cause = cause,
                                               !.fallback = runs[i].fallback]
  /\ UNCHANGED <<allCountries, favorites, currentSort, showFavoritesOnly,
                 currentPage, searchInput, paginationHidden, gridCards,
                 paginationHTML, localStorage, booted, filteredCountries, loads>>

\* The activation moves on to its next await and nothing else changes.
Proceed(i, run, name) ==
  /\ runs' = [runs EXCEPT ![i] = run]
  /\ lastOp' = Op(name, FALSE)
  /\ UNCHANGED <<allCountries, favorites, currentSort, showFavoritesOnly,
                 currentPage, searchInput, loadingHidden, gridHidden,
                 noResultsHidden, paginationHidden, noResultsHTML, gridCards,
                 paginationHTML, localStorage, booted, filteredCountries, loads>>

\* Lines 128-162, and the catch block when applyFiltersAndSort throws.
Loaded(i, data) ==
  LET countries == normalizeAll(data)
      res == applyFiltersAndSort(Dom, countries, searchInput, showFavoritesOnly,
                                 favorites, currentSort, currentPage)
  IN  /\ runs' = RemoveAt(runs, i)
      /\ allCountries' = countries
      /\ loadingHidden' = TRUE
      /\ gridHidden' = FALSE
      /\ noResultsHidden' = IF res.threw THEN FALSE ELSE res.dom.noResultsHidden
      /\ noResultsHTML' = IF res.threw THEN "error-other" ELSE noResultsHTML
      /\ paginationHidden' = res.dom.paginationHidden
      /\ gridCards' = res.dom.gridCards
      /\ paginationHTML' = res.dom.paginationHTML
      /\ filteredCountries' = IF res.rendered THEN res.filtered
                              ELSE filteredCountries
      /\ lastOp' = IF res.threw
                   THEN [Op("loadFailed", TRUE) EXCEPT !.cause = "render",
                                                       !.fallback = runs[i].fallback]
                   ELSE Op("loaded", FALSE)
      /\ UNCHANGED <<favorites, currentSort, showFavoritesOnly, currentPage,
                     searchInput, localStorage, booted, loads>>

\* The v3.1 request settles: the endpoint is unreachable and fetch rejects,
\* or it answers with a success status, or with another status.
primaryResponds(i) ==
  /\ runs[i].pc = "primary"
  /\ \/ LoadFailed(i, "primary unreachable", "error-connection")
     \/ Proceed(i, Run("json", FALSE, <<>>), "primaryOk")
     \/ Proceed(i, Run("fallback", TRUE, <<>>), "primaryNotOk")

\* The v2 request settles likewise; a non-success status is thrown, line 85.
fallbackResponds(i) ==
  /\ runs[i].pc = "fallback"
  /\ \/ LoadFailed(i, "fallback unreachable", "error-connection")
     \/ Proceed(i, Run("json", TRUE, <<>>), "fallbackOk")
     \/ LoadFailed(i, "fallback status", "error-server")

\* response.json() settles: the body is no JSON, or is no array (line 91),
\* or is the array of the endpoint that answered.
jsonResolves(i) ==
  /\ runs[i].pc = "json"
  /\ \/ LoadFailed(i, "body unparseable", "error-other")
     \/ LoadFailed(i, "payload not an array", "error-other")
     \/ \E items \in {IF runs[i].fallback THEN V2Items ELSE V3Items, <<>>} :
          Proceed(i, Run("additional", runs[i].fallback, items), "gotData")

\* The second request settles; its failure is only warned about.
additionalResponds(i) ==
  /\ runs[i].pc = "additional"
  /\ \/ Loaded(i, runs[i].data)
     \/ Proceed(i, [runs[i] EXCEPT !.pc = "additionalJson"], "additionalOk")

\* additionalResponse.json() settles: it rejects, and the inner catch goes
\* on with the data as it is, or it gives the items to merge.
additionalJsonResolves(i) ==
  /\ runs[i].pc = "additionalJson"
  /\ \/ Loaded(i, runs[i].data)
     \/ Loaded(i, mergeAdditional(runs[i].data, AdditionalItems))

\* Lines 30-35.
DOMContentLoaded ==
  /\ ~booted
  /\ booted' = TRUE
  /\ favorites' = loadFavorites(favorites, localStorage)
  /\ callFetchCountries
  /\ lastOp' = Op("DOMContentLoaded", FALSE)
  /\ UNCHANGED <<allCountries, currentSort, showFavoritesOnly, currentPage,
                 searchInput, paginationHidden, noResultsHTML, gridCards,
                 paginationHTML, localStorage, filteredCountries>>

\* A click on the retry button showError wrote: onclick="fetchCountries()".
retryClick ==
  /\ booted
  /\ ~noResultsHidden
  /\ noResultsHTML # "markup"
  /\ callFetchCountries
  /\ lastOp' = Op("retryClick", FALSE)
  /\ UNCHANGED <<allCountries, favorites, currentSort, showFavoritesOnly,
                 currentPage, searchInput, paginationHidden, noResultsHTML,
                 gridCards, paginationHTML, localStorage, booted,
                 filteredCountries>>

(***************************************************************************)
(* The session: the page as the script finds it, and what localStorage     *)
(* may hold from before.                                                   *)
(***************************************************************************)
StoredItems ==
  {NoItem, Item(<<>>), Item(<<"[">>), Item(<<"5">>), Item(<<"null">>),
   Item(<<"{}">>), Item(<<"AAA">>), Item(<<"[", "]">>),
   Item(<<"[", "5", "]">>), Item(<<"[", "AAA", "]">>),
   Item(<<"[", "AAA", ",", "AAA", "]">>)}

Globals ==
  /\ allCountries = <<>>
  /\ favorites = JArray(<<>>)
  /\ currentSort = "a-z"
  /\ showFavoritesOnly = FALSE
  /\ currentPage = 1

Init ==
  /\ Globals
  /\ searchInput = <<>>
  /\ loadingHidden \in BOOLEAN
  /\ gridHidden = FALSE
  /\ noResultsHidden = TRUE
  /\ paginationHidden \in BOOLEAN
  /\ noResultsHTML = "markup"
  /\ gridCards = <<>>
  /\ paginationHTML = <<>>
  /\ localStorage \in StoredItems
  /\ runs = <<>>
  /\ booted = FALSE
  /\ filteredCountries = <<>>
  /\ lastOp = Op("script", FALSE)
  /\ loads = 0

(***************************************************************************)
(* The loader and the events that interleave with it.                      *)
(***************************************************************************)
SearchTexts == {<<>>, <<"b", "b">>}

Loader ==
  \/ \E i \in 1..Len(runs) : primaryResponds(i)
  \/ \E i \in 1..Len(runs) : fallbackResponds(i)
  \/ \E i \in 1..Len(runs) : jsonResolves(i)
  \/ \E i \in 1..Len(runs) : additionalResponds(i)
  \/ \E i \in 1..Len(runs) : additionalJsonResolves(i)

Next ==
  \/ DOMContentLoaded
  \/ Loader
  \/ retryClick
  \/ \E value \in SearchTexts : handleSearch(value)
  \/ toggleFavoritesFilter

InitLoader == Init /\ localStorage = NoItem

Spec == InitLoader /\ [][Next]_vars

(***************************************************************************)
(* The favorites store over a session: whatever the item holds at start,   *)
(* one load, and the heart buttons of the cards it renders.                *)
(***************************************************************************)
NextFavorites ==
  \/ DOMContentLoaded
  \/ Loader
  \/ toggleFavoritesFilter
  \/ \E i \in 1..Len(gridCards), writeOk \in BOOLEAN :
       toggleFavorite(gridCards[i], writeOk)

SpecFavorites == Init /\ [][NextFavorites]_vars

(***************************************************************************)
(* The pipeline as a function of the collection and the view state: the    *)
(* page right after a load of a collection, then the view handlers.        *)
(***************************************************************************)
\* The state fetchCountries leaves when it has loaded `data`: showLoading,
\* lines 128-162, hideLoading.
LoadedWith(data, fav, store) ==
  LET countries == normalizeAll(data)
      shown == [gridHidden |-> TRUE, noResultsHidden |-> TRUE,
                paginationHidden |-> TRUE, gridCards |-> <<>>,
                paginationHTML |-> <<>>]
      res == applyFiltersAndSort(shown, countries, <<>>, FALSE, fav, "a-z", 1)
  IN  /\ allCountries = countries
      /\ favorites = fav
      /\ currentSort = "a-z"
      /\ showFavoritesOnly = FALSE
      /\ currentPage = 1
      /\ searchInput = <<>>
      /\ loadingHidden = TRUE
      /\ gridHidden = FALSE
      /\ noResultsHidden = res.dom.noResultsHidden
      /\ paginationHidden = res.dom.paginationHidden
      /\ noResultsHTML = "markup"
      /\ gridCards = res.dom.gridCards
      /\ paginationHTML = res.dom.paginationHTML
      /\ localStorage = store
      /\ runs = <<>>
      /\ booted = TRUE
      /\ filteredCountries = res.filtered
      /\ lastOp = Op("loaded", FALSE)
      /\ loads = 1

\* Items of both shapes: a name with a capital letter, a capital that is an
\* array, a string, empty or left out, a region of two letters.
PoolItems ==
  { [cca3 |-> "AAA", name |-> [common |-> <<"A", "b">>],
     capital |-> << <<"b", "a">> >>, region |-> <<"a">>, population |-> 2,
     flags |-> [png |-> "aaa.png"]],
    [alpha3Code |-> "BBB", name |-> <<"b">>, capital |-> <<"a", "A">>,
     region |-> <<"b">>, population |-> 1, flag |-> "bbb.svg"],
    [cca3 |-> "CCC", name |-> [common |-> <<"b", " ", "b">>],
     capital |-> <<>>, region |-> <<"A", "a">>, population |-> 2,
     flags |-> [png |-> "ccc.png"]] }

\* The sequences of at most n distinct items.
RECURSIVE CollectionsUpTo(_)
CollectionsUpTo(n) ==
  IF n = 0 THEN {<<>>}
  ELSE LET shorter == CollectionsUpTo(n - 1)
           fresh(c, item) == \A i \in 1..Len(c) : c[i] # item
       IN  shorter \cup
           UNION {{Append(c, item) : item \in {x \in PoolItems : fresh(c, x)}} :
                    c \in shorter}

InitPipeline ==
  \E data \in CollectionsUpTo(MaxCollection) :
    LoadedWith(data, JArray(<<"AAA">>), Item(<<"[", "AAA", "]">>))

NextPipeline ==
  \/ \E value \in StringsUpTo(MaxSearchLen) : handleSearch(value)
  \/ toggleFavoritesFilter

SpecPipeline == InitPipeline /\ [][NextPipeline]_vars

(***************************************************************************)
(* Collections of more than a page: n items in the v3.1 shape, their names *)
(* not in alphabetical order, the odd ones favorites.                      *)
(***************************************************************************)
Digit(d) == <<"0", "1", "2", "3", "4", "5", "6", "7", "8", "9">>[d + 1]

CodeOf(k) == "C" \o Digit(k \div 10) \o Digit(k % 10)

\* a, b, aa, ab, ba, bb, aaa, ...
RECURSIVE NameOf(_)
NameOf(k) ==
  IF k <= 1 THEN <<>>
  ELSE Append(NameOf(k \div 2), IF k % 2 = 0 THEN "a" ELSE "b")

ItemOf(k) ==
  [cca3 |-> CodeOf(k), name |-> [common |-> NameOf(k + 1)],
   capital |-> <<NameOf(k + 1)>>,
   region |-> IF k % 3 = 0 THEN <<"a">> ELSE <<"A", "b">>,
   population |-> k % 4, flags |-> [png |-> CodeOf(k)]]

ItemsUpTo(n) == [k \in 1..n |-> ItemOf(k)]

OddCodes(n) == [j \in 1..((n + 1) \div 2) |-> CodeOf(2 * j - 1)]

\* The sizes around the page boundaries, and the largest.
PageSizes ==
  {0, 1, itemsPerPage, itemsPerPage + 1, 25, 2 * itemsPerPage, MaxItems}

InitPages ==
  \E n \in PageSizes :
    LoadedWith(ItemsUpTo(n), JArray(OddCodes(n)), Item(stringify(OddCodes(n))))

PageSearchTexts == {<<>>, <<"a", "a">>}

NextPages ==
  \/ \E i \in 1..Len(paginationHTML) : changePage(paginationHTML[i].page)
  \/ \E value \in PageSearchTexts : handleSearch(value)
  \/ \E method \in SortKeys : handleSortChange(method)
  \/ toggleFavoritesFilter

SpecPages == InitPages /\ [][NextPages]_vars

(***************************************************************************)
(* More than a page of favorites: MaxItems records, those of odd number    *)
(* favorites, and every handler of the view.  The favorite button clicked  *)
(* is the one of the last card shown, while the list is within MaxToggled  *)
(* of its length at the start.                                             *)
(***************************************************************************)
MaxToggled == 1

ToggleSortKeys == {"a-z", "pop-high"}

InitToggles ==
  LoadedWith(ItemsUpTo(MaxItems), JArray(OddCodes(MaxItems)),
             Item(stringify(OddCodes(MaxItems))))

NextToggles ==
  \/ \E i \in 1..Len(paginationHTML) : changePage(paginationHTML[i].page)
  \/ \E value \in PageSearchTexts : handleSearch(value)
  \/ \E method \in ToggleSortKeys : handleSortChange(method)
  \/ toggleFavoritesFilter
  \/ /\ gridCards # <<>>
     /\ Len(favorites.items) > Len(OddCodes(MaxItems)) - MaxToggled
     /\ Len(favorites.items) < Len(OddCodes(MaxItems)) + MaxToggled
     /\ toggleFavorite(gridCards[Len(gridCards)], TRUE)

SpecToggles == InitToggles /\ [][NextToggles]_vars

(***************************************************************************)
(* The favorites store: claims C3, C4 and C7, under SpecFavorites.         *)
(***************************************************************************)
Codes == {"AAA", "BBB"}

\* What a reload reads back from the persisted store.
Reloaded == loadFavorites(JArray(<<>>), localStorage)

\* C3: after toggleFavorite(id) has been called twice in a row, every
\* identifier is a member of favorites exactly when it was before the two
\* calls.
C3_ToggleTwiceRestoresMembership ==
  (lastOp.op = "toggleFavorite" /\ lastOp.streak = 2) =>
    \A id \in Codes : favIncludes(favorites, id) <=> favIncludes(lastOp.before, id)

\* C4: after toggleFavorite(id) on an identifier that was not a favorite, id
\* is in favorites and in the list a reload reads back, and the persisted
\* list equals the in-memory list after the toggle.  Stated for the toggles
\* whose write the store did not refuse.
C4_PersistedEqualsMemoryAfterEveryToggle ==
  (lastOp.op = "toggleFavorite" /\ (lastOp.saved \/ lastOp.threw)) =>
    /\ ~favIncludes(lastOp.prior, lastOp.code) =>
         favIncludes(favorites, lastOp.code) /\ favIncludes(Reloaded, lastOp.code)
    /\ Reloaded = favorites

\* The item holds a well-formed list of identifiers.
StoredList(store) ==
  /\ store.present /\ store.text # <<>> /\ ~parseThrows(store.text)
  /\ store.text[1] = "["
  /\ \A i \in 1..Len(store.text) : store.text[i] \notin {"5", "null"}

\* C7: whatever the item holds, loadFavorites leaves favorites a list, the
\* empty list unless the item is a well-formed list, and no later
\* membership check or toggle throws.
C7_LoadFavoritesLeavesAList ==
  /\ booted => favorites.kind = "array"
  /\ lastOp.op = "DOMContentLoaded" =>
       (~StoredList(localStorage) => favorites = JArray(<<>>))
  /\ ~lastOp.threw

(***************************************************************************)
(* The loader: claims C5, C6, C9 and C10, under Spec.                      *)
(***************************************************************************)
ErrorPanelShown == ~noResultsHidden /\ noResultsHTML # "markup"

\* C5: when a run of fetchCountries ends with the primary request answered
\* by a non-success status and the fallback request failed too, the error
\* panel with its retry button is displayed and the grid is not visible
\* with cards in it.
C5_FailedLoadShowsErrorPanelAndNoGrid ==
  (lastOp.op = "loadFailed"
     /\ lastOp.cause \in {"fallback unreachable", "fallback status"}) =>
    /\ ErrorPanelShown
    /\ ~(~gridHidden /\ gridCards # <<>>)

\* C6: a load failure is surfaced only after the fallback request has failed
\* or the payload is no sequence; a primary request that failed, unreachable
\* or answered by a non-success status, is followed by the fallback request.
C6_FailureOnlyAfterFallback ==
  lastOp.op = "loadFailed" =>
    \/ lastOp.fallback
         /\ lastOp.cause \in {"fallback unreachable", "fallback status"}
    \/ lastOp.cause \in {"payload not an array", "body unparseable"}

\* C9: at most one run of fetchCountries is in flight.
C9_AtMostOneRunInFlight == Len(runs) <= 1

\* C10: every record of allCountries has capital, timezones and borders.
C10_SequencesNeverAbsent ==
  \A n \in 1..Len(allCountries) :
    /\ Has(allCountries[n], "capital")
    /\ Has(allCountries[n], "timezones")
    /\ Has(allCountries[n], "borders")

(***************************************************************************)
(* The search filter: claim C1, under SpecPipeline.                        *)
(***************************************************************************)
\* text contains s when the case of the letters is ignored.
ContainsIgnoringCase(text, s) ==
  \E k \in 0..(Len(text) - Len(s)) :
    \A n \in 1..Len(s) : Lower(text[k + n]) = Lower(s[n])

\* The first capital entry of a record: the first entry of the capital
\* sequence, or the capital itself where the source gave a single name.
HasCapitalEntry(country) == Has(country, "capital") /\ country.capital # <<>>

CapitalEntry(country) ==
  IF Has(country, "alpha3Code") THEN country.capital ELSE country.capital[1]

\* The common name, the first capital entry or the region contains s.
MatchesAnyOfThree(country, s) ==
  \/ ContainsIgnoringCase(country.name.common, s)
  \/ HasCapitalEntry(country) /\ ContainsIgnoringCase(CapitalEntry(country), s)
  \/ ContainsIgnoringCase(country.region, s)

Kept(country) ==
  \E n \in 1..Len(filteredCountries) : filteredCountries[n] = country

\* C1: with favorites-only off, the records kept are exactly the records of
\* the collection whose common name, first capital entry or region contains
\* the search text, case-insensitively.  Stated for the search texts that
\* have no space at either end.
C1_KeepsExactlyMatchesOfSearchText ==
  (booted /\ ~showFavoritesOnly /\ trim(searchInput) = searchInput) =>
    \A n \in 1..Len(allCountries) :
      Kept(allCountries[n]) <=> MatchesAnyOfThree(allCountries[n], searchInput)

(***************************************************************************)
(* Pagination and the page reset: claims C2 and C8, under SpecPages.       *)
(***************************************************************************)
\* The slices of pages 1..pages, one after the other.
RECURSIVE ConcatPages(_, _)
ConcatPages(countries, pages) ==
  IF pages = 0 THEN <<>>
  ELSE ConcatPages(countries, pages - 1) \o countriesToShow(countries, pages)

\* C2: the page count is the least number of pages of itemsPerPage records
\* that hold the filtered set, the slices of pages 1 up to it, in order, are
\* the filtered set with every record once, and the grid shows the slice of
\* the current page.
C2_PagesPartitionTheFilteredSet ==
  booted =>
    LET N == Len(filteredCountries)
        pages == totalPagesOf(N)
    IN  /\ pages * itemsPerPage >= N
        /\ pages > 0 => (pages - 1) * itemsPerPage < N
        /\ ConcatPages(filteredCountries, pages) = filteredCountries
        /\ (N > 0 /\ ~lastOp.threw) =>
             gridCards = codesOf(countriesToShow(filteredCountries, currentPage))

\* C2's case: three pages, the last one not full, and the last one shown.
C2_Witness ==
  /\ Len(filteredCountries) > 2 * itemsPerPage
  /\ Len(filteredCountries) < 3 * itemsPerPage
  /\ lastOp.op = "changePage"
  /\ currentPage = 3
  /\ Len(gridCards) = Len(filteredCountries) - 2 * itemsPerPage

FilterEvents == {"handleSearch", "handleSortChange", "toggleFavoritesFilter"}

\* C8: after a search input, a sort change or a favorites-only toggle the
\* current page is 1, and the subset shown was computed for page 1.
C8_FilterEventsResetToPageOne ==
  lastOp.op \in FilterEvents =>
    /\ currentPage = 1
    /\ (filteredCountries # <<>> /\ ~lastOp.threw) =>
         gridCards = codesOf(countriesToShow(filteredCountries, 1))

\* C8's case: a search input arrived while a later page was shown.
C8_Witness ==
  /\ lastOp.op = "handleSearch"
  /\ lastOp.page > 1
  /\ currentPage = 1
  /\ Len(gridCards) > 0

(***************************************************************************)
(* The frame of toggleFavorite: claim C11, under SpecFavorites.            *)
(***************************************************************************)
\* C11: a call of toggleFavorite leaves the search text, the sort key, the
\* favorites-only flag and the current page as they were, and it calls
\* applyFiltersAndSort exactly when the favorites-only view is active.
C11_ToggleFavoriteFrame ==
  [][lastOp'.op = "toggleFavorite" =>
       /\ UNCHANGED <<searchInput, currentSort, showFavoritesOnly, currentPage>>
       /\ lastOp'.recomputed <=> showFavoritesOnly]_vars

(***************************************************************************)
(* The two population orders: claim C12, under SpecPages.                  *)
(***************************************************************************)
\* What applyFiltersAndSort hands to sortCountries in the current state.
Unsorted ==
  LET searched == searchFilter(allCountries, searchInput)
  IN  IF showFavoritesOnly THEN favoritesFilter(searched, favorites) ELSE searched

Reverse(seq) == [n \in 1..Len(seq) |-> seq[Len(seq) + 1 - n]]

Populations(countries) == [n \in 1..Len(countries) |-> countries[n].population]

SameRecords(a, b) ==
  /\ Len(a) = Len(b)
  /\ {a[n] : n \in 1..Len(a)} = {b[n] : n \in 1..Len(b)}

\* C12: the order sortCountries produced with key pop-high, reversed, is the
\* order it produces with key pop-low for the same collection, up to the
\* order of the records of equal population: the same records, and the same
\* population at every place.
C12_PopHighReversedIsPopLow ==
  currentSort = "pop-high" =>
    LET low == sortCountries(Unsorted, "pop-low")
    IN  /\ SameRecords(filteredCountries, Unsorted)
        /\ SameRecords(low, Unsorted)
        /\ Populations(Reverse(filteredCountries)) = Populations(low)

\* C12's case: pop-high was chosen for more than a page of records, some of
\* equal and some of different population, and the reversed order differs
\* from the pop-low order in the records of equal population only.
C12_Witness ==
  /\ lastOp.op = "handleSortChange" /\ currentSort = "pop-high"
  /\ Len(filteredCountries) > itemsPerPage
  /\ filteredCountries[1].population > filteredCountries[Len(filteredCountries)].population
  /\ filteredCountries[1].population = filteredCountries[2].population
  /\ Reverse(filteredCountries) # sortCountries(Unsorted, "pop-low")

(***************************************************************************)
(* The scenario of 25 records: claim C13, under SpecPages.                 *)
(***************************************************************************)
TwentyFive ==
  /\ booted /\ Len(allCountries) = 25
  /\ ~showFavoritesOnly /\ searchInput = <<>> /\ currentSort = "a-z"

\* The place of a record when the collection is put in alphabetical order
\* of the common names, which are all different.
AlphabeticalPlace(country) ==
  Cardinality({n \in 1..Len(allCountries) :
                 localeCompare(allCountries[n].name.common,
                               country.name.common) < 0}) + 1

\* The grid is visible and its cards are the records of the alphabetical
\* places first..last, in that order.
CardsArePlaces(first, last) ==
  /\ ~gridHidden
  /\ Len(gridCards) = last - first + 1
  /\ \A i \in 1..Len(gridCards) :
       \E n \in 1..Len(allCountries) :
         /\ allCountries[n].cca3 = gridCards[i]
         /\ AlphabeticalPlace(allCountries[n]) = first + i - 1

\* The numbered buttons of the pagination controls.
PageButtons ==
  Cardinality({i \in 1..Len(paginationHTML) : paginationHTML[i].kind = "page"})

\* C13 as stated: with 25 records, favorites-only off, an empty search and
\* sort a-z, page 1 shows the 20 alphabetically-first records, page 2 the
\* remaining 5, and there are exactly 2 page buttons.
C13_TwentyThenFive ==
  TwentyFive =>
    /\ currentPage = 1 => CardsArePlaces(1, 20)
    /\ currentPage = 2 => CardsArePlaces(21, 25)
    /\ ~paginationHidden /\ PageButtons = 2

\* C13 as amended: with 25 records, favorites-only off, an empty search and
\* sort a-z, page 1 shows the itemsPerPage = 21 alphabetically-first
\* records, page 2 the remaining 4, there is no other page, and there are
\* exactly 2 page buttons.
C13_PageSizeThenRest ==
  TwentyFive =>
    /\ currentPage \in {1, 2}
    /\ currentPage = 1 => CardsArePlaces(1, itemsPerPage)
    /\ currentPage = 2 => CardsArePlaces(itemsPerPage + 1, 25)
    /\ ~paginationHidden /\ PageButtons = 2

\* C13's case: in the scenario the second page was opened from the page
\* controls and shows the last records.
C13_Witness ==
  /\ TwentyFive
  /\ lastOp.op = "changePage" /\ currentPage = 2
  /\ Len(gridCards) = 25 - itemsPerPage

(***************************************************************************)
(* The range of the current page: claim C14, under SpecToggles.            *)
(***************************************************************************)
\* The least number of pages of itemsPerPage records that hold count records.
PagesFor(count) ==
  CHOOSE p \in 0..count :
    p * itemsPerPage >= count /\ (p = 0 \/ (p - 1) * itemsPerPage < count)

\* C14: after a successful load and any sequence of searches, sort changes,
\* favorites-only toggles, page changes from the page controls and favorite
\* toggles, the current page is between 1 and max(1, ceil(filtered count /
\* page size)), and a filtered set that is not empty is not displayed as an
\* empty grid.
C14_PageWithinRange ==
  booted =>
    /\ currentPage >= 1
    /\ currentPage <= Max(1, PagesFor(Len(filteredCountries)))
    /\ filteredCountries # <<>> => (~gridHidden /\ gridCards # <<>>)

(***************************************************************************)
(* The panel of an empty result: claim C15, under Spec.                    *)
(***************************************************************************)
\* C15: once a load has succeeded, a search or a favorites-only toggle that
\* leaves no record shows the no-results panel as shipped, not the
\* load-failure message with its retry button.
C15_EmptyResultShowsNoResultsPanel ==
  (/\ lastOp.op \in {"handleSearch", "toggleFavoritesFilter"}
   /\ ~lastOp.threw
   /\ allCountries # <<>>
   /\ filteredCountries = <<>>) =>
    (~noResultsHidden /\ noResultsHTML = "markup")

====
